---- MODULE Spec2Model ----
(***************************************************************************)
(* Trip-planning pipelines of the repository: the CrewAI variant           *)
(* (agentes_viagem.py), the LangGraph variant (langgraph_v1.py) and the    *)
(* LangGraph variant with headless mode, fallback generator and embedded   *)
(* tests (langgraph_v2.py).                                                *)
(*                                                                         *)
(* Texts are TLA+ strings; Python's str operations (upper, strip, `in`,    *)
(* join, f-string interpolation, fromisoformat, str(date)) are operators   *)
(* over the characters of those strings.  The dashes U+2013 and U+2014 of  *)
(* the source texts are written - and --; no marker contains a dash.       *)
(***************************************************************************)
EXTENDS Integers, Sequences, FiniteSets, TLC

VARIABLES
    env,      \* process environment: variables and importable packages
    variant,  \* entry point of the submission: crew, v1, v2ui, v2cli, v2test
    form,     \* the submitted request fields (form widgets / env / test literal)
    pc,       \* position of the handler: idle, running, done, failed, rejected
    state,    \* TripState threaded through the graph (task outputs for crew)
    cur,      \* node about to run, or END
    calls,    \* number of invoke() calls made on a model capability
    trace,    \* names of the stages that have started, in order
    llm,      \* capability built by the caller (handed to build_graph)
    used,     \* per executed stage: the capability invoked and its response
    cache,    \* st.cache_resource entries of get_llm
    err,      \* exception that reached the caller of the pipeline
    ui,       \* what the caller showed: error text, success banner, exit code
    vcall,    \* last direct call of validate_inputs: arguments and result
    pcall,    \* last prompt built by a node on a given state: state, messages
    aula,     \* the study-material page (aula_agentes): form, crew, outputs, tabs
    dcall,    \* last direct call of DummyLLM.invoke: messages and answer
    ocall     \* last run of the nodes in a given order: request, context

vars == <<env, variant, form, pc, state, cur, calls, trace, llm, used, cache,
          err, ui, vcall, pcall, aula, dcall, ocall>>

(***************************************************************************)
(* Python values                                                           *)
(***************************************************************************)
None == <<>>
Some(x) == <<x>>
Truthy(opt) == opt # None /\ opt[1] # ""
\* Python's `a or b` on optional strings
Or(a, b) == IF Truthy(a) THEN a ELSE b

(***************************************************************************)
(* str.upper, str.strip, `needle in hay`                                   *)
(***************************************************************************)
LowerChars == "abcdefghijklmnopqrstuvwxyzàáãçéêíóôõú"
UpperChars == "ABCDEFGHIJKLMNOPQRSTUVWXYZÀÁÃÇÉÊÍÓÔÕÚ"

Char(s, i) == SubSeq(s, i, i)

LowerSet == {Char(LowerChars, i) : i \in 1..Len(LowerChars)}
UpperMap ==
    [c \in LowerSet |->
        Char(UpperChars, CHOOSE i \in 1..Len(LowerChars) : Char(LowerChars, i) = c)]
UpperChar(c) == IF c \in LowerSet THEN UpperMap[c] ELSE c

RECURSIVE Upper(_)
Upper(s) ==
    IF Len(s) = 0 THEN ""
    ELSE IF Len(s) = 1 THEN UpperChar(s)
    ELSE LET h == Len(s) \div 2
         IN  Upper(SubSeq(s, 1, h)) \o Upper(SubSeq(s, h + 1, Len(s)))

Contains(hay, needle) ==
    \/ Len(needle) = 0
    \/ \E i \in 1..(Len(hay) - Len(needle) + 1) :
        /\ Char(hay, i) = Char(needle, 1)
        /\ SubSeq(hay, i, i + Len(needle) - 1) = needle

IsSpace(c) == c \in {" ", "\n", "\t", "\r"}

RECURSIVE LStrip(_)
LStrip(s) ==
    IF Len(s) > 0 /\ IsSpace(Char(s, 1)) THEN LStrip(SubSeq(s, 2, Len(s))) ELSE s

RECURSIVE RStrip(_)
RStrip(s) ==
    IF Len(s) > 0 /\ IsSpace(Char(s, Len(s))) THEN RStrip(SubSeq(s, 1, Len(s) - 1)) ELSE s

Strip(s) == RStrip(LStrip(s))

(***************************************************************************)
(* Dates: date objects, datetime objects and strings                       *)
(***************************************************************************)
Date(y, m, d) == [kind |-> "date", y |-> y, m |-> m, d |-> d]
DateTime(y, m, d, h) == [kind |-> "datetime", y |-> y, m |-> m, d |-> d, h |-> h]
Str(s) == [kind |-> "str", s |-> s]
ParseError == [kind |-> "ValueError"]

Digits == "0123456789"
IsDigit(c) == \E i \in 1..10 : Char(Digits, i) = c
DigitVal(c) == (CHOOSE i \in 1..10 : Char(Digits, i) = c) - 1

RECURSIVE ToInt(_)
ToInt(s) ==
    IF Len(s) = 0 THEN 0
    ELSE 10 * ToInt(SubSeq(s, 1, Len(s) - 1)) + DigitVal(Char(s, Len(s)))

AllDigits(s) == \A i \in 1..Len(s) : IsDigit(Char(s, i))

IsLeap(y) == (y % 4 = 0 /\ y % 100 # 0) \/ y % 400 = 0
DaysIn(y, m) ==
    IF m = 2 THEN (IF IsLeap(y) THEN 29 ELSE 28)
    ELSE IF m \in {4, 6, 9, 11} THEN 30 ELSE 31

\* datetime.fromisoformat(s).date() for the calendar form YYYY-MM-DD
FromIsoFormat(s) ==
    IF /\ Len(s) = 10
       /\ Char(s, 5) = "-" /\ Char(s, 8) = "-"
       /\ AllDigits(SubSeq(s, 1, 4)) /\ AllDigits(SubSeq(s, 6, 7))
       /\ AllDigits(SubSeq(s, 9, 10))
    THEN LET y == ToInt(SubSeq(s, 1, 4))
             m == ToInt(SubSeq(s, 6, 7))
             d == ToInt(SubSeq(s, 9, 10))
         IN  IF y >= 1 /\ m \in 1..12 /\ d >= 1 /\ d <= DaysIn(y, m)
             THEN Date(y, m, d) ELSE ParseError
    ELSE ParseError

Pad(n, w) ==
    LET ds == [i \in 1..w |-> Char(Digits, ((n \div (10 ^ (w - i))) % 10) + 1)]
    IN  IF w = 2 THEN ds[1] \o ds[2] ELSE ds[1] \o ds[2] \o ds[3] \o ds[4]

\* str(d) as the handlers apply it to the date fields of the request
StrOf(d) ==
    IF d.kind = "str" THEN d.s
    ELSE Pad(d.y, 4) \o "-" \o Pad(d.m, 2) \o "-" \o Pad(d.d, 2)

_parse_date(d) ==
    IF d.kind = "date" THEN d
    ELSE IF d.kind = "datetime" THEN Date(d.y, d.m, d.d)
    ELSE FromIsoFormat(d.s)

\* d1 < d0 on date objects
DateLess(d1, d0) ==
    \/ d1.y < d0.y
    \/ d1.y = d0.y /\ d1.m < d0.m
    \/ d1.y = d0.y /\ d1.m = d0.m /\ d1.d < d0.d

MsgDestino == "Por favor, informe o destino."
MsgDatas == "Datas inválidas: use formato ISO AAAA-MM-DD."
MsgTermino == "A data de término deve ser posterior à data de início."

\* validate_inputs with `d1 <= d0` in place of `d1 < d0`
validate_inputs_strict(destino, data_inicio, data_fim) ==
    IF ~Truthy(destino) \/ Strip(destino[1]) = ""
    THEN <<FALSE, Some(MsgDestino)>>
    ELSE LET d0 == _parse_date(data_inicio)
             d1 == _parse_date(data_fim)
         IN  IF d0 = ParseError \/ d1 = ParseError
             THEN <<FALSE, Some(MsgDatas)>>
             ELSE IF ~DateLess(d0, d1)
             THEN <<FALSE, Some(MsgTermino)>>
             ELSE <<TRUE, None>>

\* validate_inputs with the dates looked at before the destination
validate_inputs_datesfirst(destino, data_inicio, data_fim) ==
    LET d0 == _parse_date(data_inicio)
        d1 == _parse_date(data_fim)
    IN  IF d0 = ParseError \/ d1 = ParseError
        THEN <<FALSE, Some(MsgDatas)>>
        ELSE IF DateLess(d1, d0)
        THEN <<FALSE, Some(MsgTermino)>>
        ELSE IF ~Truthy(destino) \/ Strip(destino[1]) = ""
        THEN <<FALSE, Some(MsgDestino)>>
        ELSE <<TRUE, None>>

validate_inputs(destino, data_inicio, data_fim) ==
    IF ~Truthy(destino) \/ Strip(destino[1]) = ""
    THEN <<FALSE, Some(MsgDestino)>>
    ELSE LET d0 == _parse_date(data_inicio)
             d1 == _parse_date(data_fim)
         IN  IF d0 = ParseError \/ d1 = ParseError
             THEN <<FALSE, Some(MsgDatas)>>
             ELSE IF DateLess(d1, d0)
             THEN <<FALSE, Some(MsgTermino)>>
             ELSE <<TRUE, None>>

(***************************************************************************)
(* Fallback capability: DummyLLM                                           *)
(***************************************************************************)
StubHotels ==
    "| Nome | Endereço | Site | Telefone |\n"
    \o "| --- | --- | --- | --- |\n"
    \o "| Hotel Central | Rua A, 123 | https://hotelcentral.example | +351 21 000 000 "
    \o "|\n"
    \o "| Boutique Vista | Av. B, 456 | https://boutiquevista.example | +351 21 111 "
    \o "111 |\n"
    \o "| Porto Inn | Rua C, 789 | https://portoinn.example | +351 21 222 222 |\n\n"
    \o "**Fontes**: [Turismo Local](https://turismo.local), [Guias "
    \o "Exemplo](https://guia.exemplo)"

StubLeisure ==
    "- Castelo Histórico -- Panorama da cidade. <https://castelo.example>\n"
    \o "- Museu de Arte -- Coleções modernas. <https://museu.example>\n"
    \o "- Mercado Central -- Gastronomia local. <https://mercado.example>\n\n"
    \o "**Eventos (período)**\n"
    \o "- Festival de Verão -- Música ao ar livre. <https://festival.example>\n"
    \o "- Feira de Livros -- Autores locais. <https://feira.example>\n\n"
    \o "**Fontes**: [Agenda Cultural](https://agenda.example)"

StubFood ==
    "| Nome | Bairro | Faixa de Preço | Cozinha | Site |\n"
    \o "| --- | --- | --- | --- | --- |\n"
    \o "| Tasca do Bairro | Centro | $$ | Portuguesa | https://tasca.example |\n"
    \o "| Mar & Brasa | Ribeira | $$$ | Peixes e grelhados | "
    \o "https://marebrasa.example |\n\n"
    \o "**Comidas típicas**: Bacalhau à Brás, Pastel de Nata, Caldo Verde, "
    \o "Francesinha.\n\n"
    \o "**Fontes**: [Guia Gastronômico](https://gastronomia.example)"

StubFinal ==
    "Introdução: Este roteiro sintetiza opções de hospedagem, lazer e alimentação "
    \o "para uma experiência equilibrada.\n\n"
    \o "Hospedagem: ver tabela acima.\n\n"
    \o "Lazer: destaques culturais e eventos no período.\n\n"
    \o "Alimentação: restaurantes recomendados e comidas típicas.\n\n"
    \o "Mini-roteiro: Dia 1 -- centro histórico; Dia 2 -- museus; Dia 3 -- orla.\n\n"
    \o "Dicas rápidas: compre bilhetes antecipados; use transporte público; atenção a "
    \o "pertences.\n\n"
    \o "Fontes: consolidadas ao final das seções."

StubPlan ==
    "1) HOSPEDAGEM -- Selecionar hotéis bem localizados e com bom custo-benefício.\n"
    \o "2) LAZER -- Mapear atrações essenciais e eventos no período.\n"
    \o "3) ALIMENTAÇÃO -- Levantar restaurantes e comidas típicas.\n\n"
    \o "**Critérios**\n"
    \o "- Proximidade a transporte/centro\n"
    \o "- Avaliações consistentes\n"
    \o "- Adequação ao orçamento/preferências\n"
    \o "- Variedade de experiências\n\n"
    \o "Justificativa: o recorte em 3 pilares organiza a pesquisa e facilita decisões."

RECURSIVE Join(_, _)
Join(sep, texts) ==
    IF Len(texts) = 0 THEN ""
    ELSE IF Len(texts) = 1 THEN texts[1]
    ELSE texts[1] \o sep \o Join(sep, Tail(texts))

\* An invoke that tests the leisure marker before the hotel markers
DummyLLM_invoke_lazerfirst(messages) ==
    LET prompt == Join("\n\n", messages)
        up == Upper(prompt)
    IN  IF Contains(up, "LAZER") THEN StubLeisure
        ELSE IF Contains(up, "HOSPEDAGEM") /\ Contains(up, "TABELA") THEN StubHotels
        ELSE IF Contains(up, "ALIMENTAÇÃO") THEN StubFood
        ELSE IF Contains(up, "RELATÓRIO FINAL") THEN StubFinal
        ELSE StubPlan

\* DummyLLM.invoke(messages).content; messages are given by their contents
DummyLLM_invoke(messages) ==
    LET prompt == Join("\n\n", messages)
        up == Upper(prompt)
    IN  IF Contains(up, "HOSPEDAGEM") /\ Contains(up, "TABELA") THEN StubHotels
        ELSE IF Contains(up, "LAZER") THEN StubLeisure
        ELSE IF Contains(up, "ALIMENTAÇÃO") THEN StubFood
        ELSE IF Contains(up, "RELATÓRIO FINAL") THEN StubFinal
        ELSE StubPlan

(***************************************************************************)
(* Prompt templates of the five nodes (identical text in langgraph_v1.py   *)
(* and langgraph_v2.py)                                                    *)
(***************************************************************************)
Get(st, key, default) == IF key \in DOMAIN st THEN st[key] ELSE default

planner_system ==
    "Você estrutura planos objetivos e práticos em 3 passos fixos."

planner_human(st) ==
    "\nPLANEJAMENTO GERAL\n\n"
    \o "Destino: "
    \o st["destino"]
    \o "\n\nDatas: "
    \o st["data_inicio"]
    \o " a "
    \o st["data_fim"]
    \o "\n\nOrçamento: "
    \o st["orcamento"]
    \o "\n\nPreferências: "
    \o st["preferencias"]
    \o "\n\n\n\nSua função: **Roteirista de Viagens**.\n\n"
    \o "Objetivo: Gerar um plano de pesquisa dividido em **EXATAMENTE 3 subtarefas "
    \o "numeradas**:\n\n"
    \o "1) HOSPEDAGEM; 2) LAZER; 3) ALIMENTAÇÃO.\n\n\n\n"
    \o "Regras de saída (em Markdown):\n\n"
    \o "- Liste as 3 subtarefas numeradas (cada uma com 1 frase).\n\n"
    \o "- Em seguida, traga 3-5 critérios de seleção (bullets) considerando orçamento "
    \o "e preferências.\n\n"
    \o "- Feche com 1-2 linhas de justificativa.\n\n"
    \o "Retorne **somente** esse conteúdo.\n"

hotels_system ==
    "Você verifica informações de hotéis e organiza dados de contato."

hotels_human(st) ==
    "\nHOSPEDAGEM\n\n"
    \o "Destino: "
    \o st["destino"]
    \o "\n\nPeríodo: "
    \o st["data_inicio"]
    \o " - "
    \o st["data_fim"]
    \o "\n\nOrçamento: "
    \o st["orcamento"]
    \o "\n\nPreferências: "
    \o st["preferencias"]
    \o "\n\nPlano do roteirista:\n\n"
    \o Get(st, "plan", "")
    \o "\n\n\n\nEntregue uma **tabela Markdown** com as colunas: **Nome | Endereço | Site "
    \o "| Telefone**.\n\n"
    \o "Inclua **5-8 opções** e **2-4 fontes** (título + URL) ao final.\n"

leisure_system ==
    "Você encontra atrações e eventos relevantes às datas."

\* A leisure prompt that leaves the plan out
leisure_human_noplan(st) ==
    "\nLAZER\n\n"
    \o "Destino: "
    \o st["destino"]
    \o "\n\nPeríodo: "
    \o st["data_inicio"]
    \o " - "
    \o st["data_fim"]
    \o "\n\nListe **8-12 pontos turísticos essenciais** (com breve descrição e "
    \o "link).\n"

leisure_human(st) ==
    "\nLAZER\n\n"
    \o "Destino: "
    \o st["destino"]
    \o "\n\nPeríodo: "
    \o st["data_inicio"]
    \o " - "
    \o st["data_fim"]
    \o "\n\nPlano do roteirista:\n\n"
    \o Get(st, "plan", "")
    \o "\n\n\n\nListe **8-12 pontos turísticos essenciais** (com breve descrição e "
    \o "link).\n\n"
    \o "Depois, **3-5 eventos** que ocorram no período informado (com breve descrição "
    \o "e link).\n\n"
    \o "Formate em listas e finalize com **2-4 fontes** (título + URL).\n"

food_system ==
    "Você conhece a cena gastronômica e as especialidades locais."

\* A food prompt that also carries what the hotels stage wrote
food_human_withhotels(st) ==
    "\nALIMENTAÇÃO\n\n"
    \o "Destino: "
    \o st["destino"]
    \o "\n\nPreferências: "
    \o st["preferencias"]
    \o "\n\nPlano do roteirista:\n\n"
    \o Get(st, "plan", "")
    \o "\n\nHospedagem:\n\n"
    \o Get(st, "hotels", "")
    \o "\n\n1) Recomende **8-12 restaurantes** (entregue em **tabela Markdown**).\n"

food_human(st) ==
    "\nALIMENTAÇÃO\n\n"
    \o "Destino: "
    \o st["destino"]
    \o "\n\nPreferências: "
    \o st["preferencias"]
    \o "\n\nPlano do roteirista:\n\n"
    \o Get(st, "plan", "")
    \o "\n\n\n\n1) Recomende **8-12 restaurantes** (\n\n"
    \o "   entregue em **tabela Markdown** com **Nome | Bairro | Faixa de Preço | "
    \o "Cozinha | Site**).\n\n"
    \o "2) Liste **5-8 comidas típicas** com breve explicação.\n\n"
    \o "Finalize com **2-4 fontes** (título + URL).\n"

writer_system ==
    "Você escreve de forma clara, didática e organizada."

\* A writer prompt that carries the request and the plan and leaves the three
\* research outputs out
writer_human_planonly(st) ==
    "\nRELATÓRIO FINAL\n\n"
    \o "Contexto:\n\n"
    \o "- Destino: "
    \o st["destino"]
    \o "\n\n- Datas: "
    \o st["data_inicio"]
    \o " a "
    \o st["data_fim"]
    \o "\n\n- Orçamento: "
    \o st["orcamento"]
    \o "\n\n- Preferências: "
    \o st["preferencias"]
    \o "\n\n\n\n=== PLANEJAMENTO ===\n\n"
    \o Get(st, "plan", "")
    \o "\n"

writer_human(st) ==
    "\nRELATÓRIO FINAL\n\n"
    \o "Use o plano (PLANEJAMENTO) e as entregas de HOSPEDAGEM, LAZER e ALIMENTAÇÃO "
    \o "para compor o texto final **(500-700 palavras)**.\n\n"
    \o "Inclua:\n\n"
    \o "- Introdução breve;\n\n"
    \o "- Seções: **Hospedagem**, **Lazer**, **Alimentação** (incorpore "
    \o "tabelas/listas quando aplicável);\n\n"
    \o "- Mini-roteiro sugerido **por dia** (alto nível);\n\n"
    \o "- **Dicas rápidas** (transporte/segurança);\n\n"
    \o "- Seção **Fontes** consolidada.\n\n\n\n"
    \o "Contexto:\n\n"
    \o "- Destino: "
    \o st["destino"]
    \o "\n\n- Datas: "
    \o st["data_inicio"]
    \o " a "
    \o st["data_fim"]
    \o "\n\n- Orçamento: "
    \o st["orcamento"]
    \o "\n\n- Preferências: "
    \o st["preferencias"]
    \o "\n\n\n\n=== PLANEJAMENTO ===\n\n"
    \o Get(st, "plan", "")
    \o "\n\n\n\n=== HOSPEDAGEM ===\n\n"
    \o Get(st, "hotels", "")
    \o "\n\n\n\n=== LAZER ===\n\n"
    \o Get(st, "leisure", "")
    \o "\n\n\n\n=== ALIMENTAÇÃO ===\n\n"
    \o Get(st, "food", "")
    \o "\n"

(***************************************************************************)
(* Capabilities                                                            *)
(***************************************************************************)
ChatGroq(key, temperature) ==
    [kind |-> "ChatGroq", api_key |-> key, temperature |-> temperature]
DummyLLM(temperature) ==
    [kind |-> "DummyLLM", api_key |-> None, temperature |-> temperature]
CrewLLM == [kind |-> "LLM", api_key |-> Some("SUA_CHAVE_API"), temperature |-> 20]
NoLLM == [kind |-> "none", api_key |-> None, temperature |-> 0]

\* default value of the temperature parameter of get_llm, in hundredths
DefaultTemperature == 20

\* A factory without the fallback: always the real client
_get_llm_impl_nofallback(api_key, temperature, e) ==
    ChatGroq(Or(api_key, e.GROQ_API_KEY), temperature)

\* langgraph_v2._get_llm_impl
_get_llm_impl(api_key, temperature, e) ==
    LET key == Or(api_key, e.GROQ_API_KEY)
    IN  IF e.ChatGroq /\ Truthy(key) THEN ChatGroq(key, temperature)
        ELSE DummyLLM(temperature)

\* langgraph_v1.get_llm: a ValueError when no key can be resolved
ConfigError == [kind |-> "ValueError", api_key |-> None, temperature |-> 0]
\* A factory for langgraph_v1 that falls back to the dummy when no key can
\* be resolved, as langgraph_v2 does
v1_get_llm_impl_fallback(api_key, temperature, e) ==
    LET key == Or(api_key, e.GROQ_API_KEY)
    IN  IF ~Truthy(key) THEN DummyLLM(temperature)
        ELSE ChatGroq(key, temperature)

v1_get_llm_impl(api_key, temperature, e) ==
    LET key == Or(api_key, e.GROQ_API_KEY)
    IN  IF ~Truthy(key) THEN ConfigError ELSE ChatGroq(key, temperature)

\* st.cache_resource: the entry stored for these arguments, if any
CacheHit(c, api_key, temperature) ==
    \E x \in c : x.api_key = api_key /\ x.temperature = temperature
CacheGet(c, api_key, temperature) ==
    (CHOOSE x \in c : x.api_key = api_key /\ x.temperature = temperature).value
CachePut(c, api_key, temperature, value) ==
    c \cup {[api_key |-> api_key, temperature |-> temperature, value |-> value]}

\* langgraph_v2.get_llm: cached by its arguments when Streamlit is available
get_llm(api_key, temperature, e, c) ==
    IF e.streamlit /\ CacheHit(c, api_key, temperature)
    THEN CacheGet(c, api_key, temperature)
    ELSE _get_llm_impl(api_key, temperature, e)

get_llm_cache(api_key, temperature, e, c) ==
    IF e.streamlit /\ ~CacheHit(c, api_key, temperature)
    THEN CachePut(c, api_key, temperature, _get_llm_impl(api_key, temperature, e))
    ELSE c

(***************************************************************************)
(* Graph and stages                                                        *)
(***************************************************************************)
END == "__end__"
Stages == <<"planner", "hotels", "leisure", "food", "writer">>
StageSet == {Stages[i] : i \in 1..Len(Stages)}
StageIndex(s) == CHOOSE i \in 1..Len(Stages) : Stages[i] = s

\* output key each node returns
KeyOf(stage) ==
    CASE stage = "planner" -> "plan"
      [] stage = "hotels" -> "hotels"
      [] stage = "leisure" -> "leisure"
      [] stage = "food" -> "food"
      [] stage = "writer" -> "final"
OutputKeys == {KeyOf(s) : s \in StageSet}
RequestKeys == {"destino", "data_inicio", "data_fim", "orcamento", "preferencias"}

\* A graph whose first edge skips the hotels node
build_graph_skip ==
    [entry |-> "planner",
     edges |-> [planner |-> "leisure", hotels |-> "leisure", leisure |-> "food",
                food |-> "writer", writer |-> END]]

\* langgraph_v2.build_graph: entry point and edges
build_graph ==
    [entry |-> "planner",
     edges |-> [planner |-> "hotels", hotels |-> "leisure", leisure |-> "food",
                food |-> "writer", writer |-> END]]

\* langgraph_v1: the builder of the submit handler
v1_graph ==
    [entry |-> "planner",
     edges |-> [planner |-> "hotels", hotels |-> "leisure", leisure |-> "food",
                food |-> "writer", writer |-> END]]

\* agentes_viagem: Crew(tasks=[t1..t5], process=Process.sequential)
crew_tasks == <<"planner", "hotels", "leisure", "food", "writer">>
crew_graph ==
    [entry |-> crew_tasks[1],
     edges |-> [s \in {crew_tasks[i] : i \in 1..Len(crew_tasks)} |->
                  LET i == CHOOSE j \in 1..Len(crew_tasks) : crew_tasks[j] = s
                  IN  IF i < Len(crew_tasks) THEN crew_tasks[i + 1] ELSE END]]

GraphOf(v) ==
    IF v = "crew" THEN crew_graph ELSE IF v = "v1" THEN v1_graph ELSE build_graph

Messages(stage, st) ==
    CASE stage = "planner" -> <<planner_system, planner_human(st)>>
      [] stage = "hotels" -> <<hotels_system, hotels_human(st)>>
      [] stage = "leisure" -> <<leisure_system, leisure_human(st)>>
      [] stage = "food" -> <<food_system, food_human(st)>>
      [] stage = "writer" -> <<writer_system, writer_human(st)>>

\* What a real capability can do with one call: answer with a text, answer
\* with an empty text, or raise.
RealTexts == {"", "Texto gerado pelo modelo."}
RealOutcomes ==
    {[kind |-> "content", text |-> t] : t \in RealTexts}
        \cup {[kind |-> "raise", text |-> "APIError"]}

\* A fallback whose answer changes with its temperature
Invoke_bytemperature(cap, messages, oracle) ==
    IF cap.kind = "DummyLLM"
    THEN [kind |-> "content",
          text |-> IF cap.temperature > 0 THEN StubPlan
                   ELSE DummyLLM_invoke(messages)]
    ELSE oracle

\* cap.invoke(messages): the fallback answers from the prompt, a real
\* capability answers as the oracle says
Invoke(cap, messages, oracle) ==
    IF cap.kind = "DummyLLM"
    THEN [kind |-> "content", text |-> DummyLLM_invoke(messages)]
    ELSE oracle

\* The capability a node of langgraph_v2 invokes: get_llm(None), not the
\* llm its factory received
v2_node_llm(given, e, c) == get_llm(None, DefaultTemperature, e, c)

\* The capability the node of a variant invokes
NodeLLM(v, given, e, c) ==
    IF v \in {"crew", "v1"} THEN given ELSE v2_node_llm(given, e, c)

NoErr == [type |-> "none", stage |-> "none", note |-> "none"]

\* A node that answers a failed call with an empty output instead of letting
\* the exception leave
node_swallow(stage, st, cap, oracle) ==
    LET resp == Invoke(cap, Messages(stage, st), oracle)
    IN  [invocations |-> 1, raised |-> FALSE, exc |-> NoErr, resp |-> resp,
         update |-> [k \in {KeyOf(stage)} |->
                       IF resp.kind = "raise" THEN "" ELSE resp.text]]

\* A node that wraps the exception of the capability in an error of its own
node_wrap(stage, st, cap, oracle) ==
    LET resp == Invoke(cap, Messages(stage, st), oracle)
    IN  IF resp.kind = "raise"
        THEN [invocations |-> 1, raised |-> TRUE, resp |-> resp,
              exc |-> [type |-> "GenerationError", stage |-> stage,
                       note |-> "none"],
              update |-> <<>>]
        ELSE [invocations |-> 1, raised |-> FALSE, exc |-> NoErr, resp |-> resp,
              update |-> [k \in {KeyOf(stage)} |-> resp.text]]

\* A node that calls the capability a second time when the first call raises
node_retry(stage, st, cap, oracle) ==
    LET resp == Invoke(cap, Messages(stage, st), oracle)
    IN  IF resp.kind = "raise"
        THEN [invocations |-> 2, raised |-> TRUE, resp |-> resp,
              exc |-> [type |-> resp.text, stage |-> "none", note |-> "none"],
              update |-> <<>>]
        ELSE [invocations |-> 1, raised |-> FALSE, exc |-> NoErr, resp |-> resp,
              update |-> [k \in {KeyOf(stage)} |-> resp.text]]

\* One execution of a LangGraph node: resp = <capability>.invoke([system,
\* human]); return {key: resp.content}.  The record tells the calls made on
\* the capability, its response, and either the update the node returns or
\* the exception that leaves it.
node(stage, st, cap, oracle) ==
    LET resp == Invoke(cap, Messages(stage, st), oracle)
    IN  IF resp.kind = "raise"
        THEN [invocations |-> 1, raised |-> TRUE, resp |-> resp,
              exc |-> [type |-> resp.text, stage |-> "none", note |-> "none"],
              update |-> <<>>]
        ELSE [invocations |-> 1, raised |-> FALSE, exc |-> NoErr, resp |-> resp,
              update |-> [k \in {KeyOf(stage)} |-> resp.text]]

\* One task of the crew: CrewAI drives the agent, which calls the capability
\* n times before the task output is set or the error leaves kickoff.
MaxCrewCalls == 2
crew_task(stage, st, n, oracle) ==
    IF oracle.kind = "raise"
    THEN [invocations |-> n, raised |-> TRUE, resp |-> oracle,
          exc |-> [type |-> oracle.text, stage |-> "none", note |-> "none"],
          update |-> <<>>]
    ELSE [invocations |-> n, raised |-> FALSE, exc |-> NoErr, resp |-> oracle,
          update |-> [k \in {KeyOf(stage)} |-> oracle.text]]

\* A merge that keeps the request and the update and drops what earlier
\* stages wrote
Merge_reset(st, update) ==
    [k \in (DOMAIN st \cap RequestKeys) \cup DOMAIN update |->
        IF k \in DOMAIN update THEN update[k] ELSE st[k]]

\* LangGraph merges the update returned by a node into the state
Merge(st, update) ==
    [k \in DOMAIN st \cup DOMAIN update |->
        IF k \in DOMAIN update THEN update[k] ELSE st[k]]

(***************************************************************************)
(* Requests                                                                *)
(***************************************************************************)
NaoInformado == "não informado"
\* Python's `x or "não informado"` on a widget value
OrDefault(opt) == IF Truthy(opt) THEN opt[1] ELSE NaoInformado
\* os.environ.get(name, "não informado")
EnvGet(opt) == IF opt = None THEN NaoInformado ELSE opt[1]
\* os.environ.get(name) or input(...).strip()
CliRead(envv, typed) == IF Truthy(envv) THEN envv[1] ELSE Strip(typed)

\* float(os.environ.get("TEMPERATURA", "0.2")), in hundredths, for "d.d"
ParseTemperature(opt) ==
    LET s == IF opt = None THEN "0.2" ELSE opt[1]
    IN  ToInt(Char(s, 1)) * 100 + ToInt(Char(s, 3)) * 10

MsgCampos == "Por favor, informe o destino e as datas da viagem para continuar."

\* The checks without the comparison of the dates
v1_validate_nodates(destino, data_inicio, data_fim) ==
    IF ~Truthy(destino) THEN <<FALSE, Some(MsgCampos)>> ELSE <<TRUE, None>>

\* langgraph_v1: the checks of the submit handler (date widgets hold dates)
v1_validate(destino, data_inicio, data_fim) ==
    IF ~Truthy(destino) THEN <<FALSE, Some(MsgCampos)>>
    ELSE IF DateLess(data_fim, data_inicio) THEN <<FALSE, Some(MsgTermino)>>
    ELSE <<TRUE, None>>

\* agentes_viagem: the checks of the submit handler
crew_validate(destino, data_inicio, data_fim) ==
    IF ~Truthy(destino) THEN <<FALSE, Some(MsgCampos)>>
    ELSE IF DateLess(data_fim, data_inicio) THEN <<FALSE, Some(MsgTermino)>>
    ELSE <<TRUE, None>>

\* the dict handed to graph.invoke / crew.kickoff by the form handlers
ui_inputs(f) ==
    [destino |-> f.destino[1],
     data_inicio |-> StrOf(f.data_inicio),
     data_fim |-> StrOf(f.data_fim),
     orcamento |-> OrDefault(f.orcamento),
     preferencias |-> OrDefault(f.preferencias)]

\* the dict handed to graph.invoke by run_cli
cli_inputs(f) ==
    [destino |-> f.destino[1],
     data_inicio |-> StrOf(f.data_inicio),
     data_fim |-> StrOf(f.data_fim),
     orcamento |-> EnvGet(f.orcamento),
     preferencias |-> EnvGet(f.preferencias)]

\* state_in of run_tests
test_inputs ==
    [destino |-> "Lisboa, Portugal",
     data_inicio |-> "2025-01-01",
     data_fim |-> "2025-01-05",
     orcamento |-> "R$ 5.000",
     preferencias |-> "Museus e bairros históricos"]

\* values the inputs are drawn from
Destinos == {Some(""), Some("  "), Some("Lisboa, Portugal")}
FormDates == {Date(2025, 1, 1), Date(2025, 1, 5)}
\* optional fields: <<orcamento, preferencias>>
Opcionais == {<<Some(""), Some("")>>,
              <<Some("R$ 5.000"), Some("Museus e bairros históricos")>>}
ApiKeys == {Some(""), Some("gsk_form")}
Temperaturas == {20, 70}
CliDestinos == {<<None, "">>, <<None, " Porto ">>, <<Some("  "), "">>,
                <<Some("Lisboa, Portugal"), "">>}
CliDates == {<<None, "amanhã">>, <<None, " 2025-01-05">>,
             <<Some("2025-01-01"), "">>}
CliOpcionais == {<<None, None>>, <<Some(""), Some("")>>,
                 <<Some("R$ 5.000"), Some("Museus e bairros históricos")>>}
CliTemperaturas == {None, Some("0.7")}
EnvKeys == {None, Some("gsk_env")}
ValidateDestinos == Destinos \cup {None}
ValidateDates ==
    FormDates \cup {DateTime(2025, 1, 1, 9), DateTime(2025, 1, 5, 18),
                    Str("2025-01-01"), Str("2025-01-05"), Str("2025-02-30"),
                    Str("amanhã")}

NoForm ==
    [destino |-> None, data_inicio |-> Str(""), data_fim |-> Str(""),
     orcamento |-> None, preferencias |-> None, api_key |-> None,
     temperatura |-> 0]
NoCall == [done |-> FALSE]

\* aula_agentes: the hard-coded key and the message of the check of line 22
AulaApiKey == "SUA_CHAVE_API"
MsgAula == "Por favor, informe a API key e o tema de estudo."
\* agents = [agente_resumo, agente_exemplos, agente_exercicios] (+ append)
aula_agents(mostrar_gabarito) ==
    <<"agente_resumo", "agente_exemplos", "agente_exercicios">>
        \o (IF mostrar_gabarito THEN <<"agente_gabarito">> ELSE <<>>)
\* A task list that holds the answer key whatever the toggle says
aula_tasks_always(mostrar_gabarito) ==
    <<"t_resumo", "t_exemplos", "t_exercicios", "t_gabarito">>
\* tasks = [t_resumo, t_exemplos, t_exercicios] (+ append)
aula_tasks(mostrar_gabarito) ==
    <<"t_resumo", "t_exemplos", "t_exercicios">>
        \o (IF mostrar_gabarito THEN <<"t_gabarito">> ELSE <<>>)
\* the context= argument of each task that is created, None when not given
aula_context(mostrar_gabarito) ==
    [t \in {"t_resumo", "t_exemplos", "t_exercicios"}
            \cup (IF mostrar_gabarito THEN {"t_gabarito"} ELSE {}) |->
        IF t = "t_gabarito" THEN Some(<<"t_exercicios">>) ELSE None]
\* the dict handed to crew.kickoff
aula_inputs(tema, nivel, objetivo) ==
    [tema |-> tema[1], nivel |-> OrDefault(nivel),
     objetivo |-> OrDefault(objetivo)]
\* the task variables whose output the display code reads
aula_read(mostrar_gabarito) ==
    <<"t_resumo", "t_exemplos", "t_exercicios">>
        \o (IF mostrar_gabarito THEN <<"t_gabarito">> ELSE <<>>)
\* the labels handed to st.tabs
aula_tabs(mostrar_gabarito) ==
    IF mostrar_gabarito THEN <<"Resumo", "Exemplos", "Exercícios", "Gabarito">>
    ELSE <<"Resumo", "Exemplos", "Exercícios">>
Temas == {Some(""), Some("Fotossíntese")}
\* optional fields: <<nivel, objetivo>>
AulaOpcionais == {<<Some(""), Some("")>>,
                  <<Some("ensino médio"), Some("entender conceitos básicos")>>}
NoAula ==
    [pc |-> "idle", tema |-> None, mostrar_gabarito |-> TRUE, error |-> None,
     agents |-> <<>>, tasks |-> <<>>, context |-> <<>>, inputs |-> <<>>,
     started |-> <<>>, outputs |-> <<>>, read |-> <<>>, tabs |-> <<>>]
NoUi == [error |-> None, success |-> FALSE, exit |-> 0, shown |-> <<>>]

(***************************************************************************)
(* The state after the module is loaded                                    *)
(***************************************************************************)
Init ==
    /\ env \in [GROQ_API_KEY : EnvKeys, ChatGroq : BOOLEAN, streamlit : BOOLEAN]
    /\ variant = "none"
    /\ form = NoForm
    /\ pc = "idle"
    /\ state = [k \in {} |-> ""]
    /\ cur = END
    /\ calls = 0
    /\ trace = <<>>
    /\ llm = NoLLM
    /\ used = <<>>
    /\ cache = {}
    /\ err = NoErr
    /\ ui = NoUi
    /\ vcall = NoCall
    /\ pcall = NoCall
    /\ aula = NoAula
    /\ dcall = NoCall
    /\ ocall = NoCall

\* the handler stops with an error shown (st.error + st.stop, or sys.exit(2))
Reject(v, f, msg, code) ==
    /\ variant' = v
    /\ form' = f
    /\ pc' = "rejected"
    /\ ui' = [ui EXCEPT !.error = msg, !.exit = code]
    /\ UNCHANGED <<env, state, cur, calls, trace, llm, used, cache, err, vcall, pcall, aula, dcall, ocall>>

\* the handler hands the request to the pipeline
Start(v, f, cap, c, inputs) ==
    /\ variant' = v
    /\ form' = f
    /\ llm' = cap
    /\ cache' = c
    /\ state' = inputs
    /\ cur' = GraphOf(v).entry
    /\ pc' = "running"
    /\ UNCHANGED <<env, calls, trace, used, err, ui, vcall, pcall, aula, dcall, ocall>>

\* agentes_viagem: `if executar:` up to crew.kickoff
SubmitCrew ==
    /\ pc = "idle"
    /\ env.streamlit
    /\ \E d \in Destinos, di \in FormDates, df \in FormDates,
          op \in Opcionais :
        LET f == [destino |-> d, data_inicio |-> di, data_fim |-> df,
                  orcamento |-> op[1], preferencias |-> op[2], api_key |-> None,
                  temperatura |-> 20]
            v == crew_validate(d, di, df)
        IN  IF ~v[1] THEN Reject("crew", f, v[2], 0)
            ELSE Start("crew", f, CrewLLM, cache, ui_inputs(f))

\* langgraph_v1: `if executar:` up to graph.invoke
SubmitV1 ==
    /\ pc = "idle"
    /\ env.streamlit
    /\ env.ChatGroq
    /\ \E d \in Destinos, di \in FormDates, df \in FormDates,
          op \in Opcionais, k \in ApiKeys,
          t \in Temperaturas :
        LET f == [destino |-> d, data_inicio |-> di, data_fim |-> df,
                  orcamento |-> op[1], preferencias |-> op[2], api_key |-> k,
                  temperatura |-> t]
            v == v1_validate(d, di, df)
            cap == IF CacheHit(cache, k, t) THEN CacheGet(cache, k, t)
                   ELSE v1_get_llm_impl(k, t, env)
        IN  IF ~v[1] THEN Reject("v1", f, v[2], 0)
            ELSE IF cap = ConfigError
            THEN /\ variant' = "v1"
                 /\ form' = f
                 /\ pc' = "config_error"
                 /\ ui' = [ui EXCEPT !.error = Some("Erro ao inicializar o LLM")]
                 /\ UNCHANGED <<env, state, cur, calls, trace, llm, used,
                                cache, err, vcall, pcall, aula, dcall, ocall>>
            ELSE Start("v1", f, cap, CachePut(cache, k, t, cap), ui_inputs(f))

\* langgraph_v2: `if executar:` of the Streamlit branch up to graph.invoke
SubmitV2ui ==
    /\ pc = "idle"
    /\ env.streamlit
    /\ \E d \in Destinos, di \in FormDates, df \in FormDates,
          op \in Opcionais, k \in ApiKeys,
          t \in Temperaturas :
        LET f == [destino |-> d, data_inicio |-> di, data_fim |-> df,
                  orcamento |-> op[1], preferencias |-> op[2], api_key |-> k,
                  temperatura |-> t]
            v == validate_inputs(d, di, df)
        IN  IF ~v[1] THEN Reject("v2ui", f, v[2], 0)
            ELSE Start("v2ui", f, get_llm(k, t, env, cache),
                       get_llm_cache(k, t, env, cache), ui_inputs(f))

\* langgraph_v2.run_cli up to graph.invoke
SubmitV2cli ==
    /\ pc = "idle"
    /\ ~env.streamlit
    /\ \E d \in CliDestinos, di \in CliDates, df \in CliDates,
          op \in CliOpcionais, t \in CliTemperaturas :
        LET f == [destino |-> Some(CliRead(d[1], d[2])),
                  data_inicio |-> Str(CliRead(di[1], di[2])),
                  data_fim |-> Str(CliRead(df[1], df[2])),
                  orcamento |-> op[1], preferencias |-> op[2],
                  api_key |-> env.GROQ_API_KEY,
                  temperatura |-> ParseTemperature(t)]
            v == validate_inputs(f.destino, f.data_inicio, f.data_fim)
        IN  IF ~v[1] THEN Reject("v2cli", f, v[2], 2)
            ELSE Start("v2cli", f,
                       get_llm(f.api_key, f.temperatura, env, cache),
                       get_llm_cache(f.api_key, f.temperatura, env, cache),
                       cli_inputs(f))

\* langgraph_v2.run_tests, part 2: build_graph(DummyLLM()) on state_in
SubmitV2test ==
    /\ pc = "idle"
    /\ LET f == [destino |-> Some(test_inputs.destino),
                 data_inicio |-> Str(test_inputs.data_inicio),
                 data_fim |-> Str(test_inputs.data_fim),
                 orcamento |-> Some(test_inputs.orcamento),
                 preferencias |-> Some(test_inputs.preferencias),
                 api_key |-> None, temperatura |-> 0]
       IN  Start("v2test", f, DummyLLM(0), cache, test_inputs)

\* One super-step of graph.invoke (one task of crew.kickoff): the current
\* node runs, its update is merged and the edge is followed; an exception
\* leaves invoke and reaches the caller.
RunStage ==
    /\ pc = "running"
    /\ cur \in StageSet
    /\ LET cap == NodeLLM(variant, llm, env, cache)
       IN  \E oracle \in (IF cap.kind = "DummyLLM"
                          THEN {[kind |-> "content", text |-> ""]}
                          ELSE RealOutcomes),
              n \in (IF variant = "crew" THEN 1..MaxCrewCalls ELSE {1}) :
            \E r \in {IF variant = "crew" THEN crew_task(cur, state, n, oracle)
                      ELSE node(cur, state, cap, oracle)} :
                /\ trace' = Append(trace, cur)
                /\ used' = Append(used, [llm |-> cap, resp |-> r.resp])
                /\ calls' = calls + r.invocations
                /\ cache' = IF variant \in {"crew", "v1"} THEN cache
                            ELSE get_llm_cache(None, DefaultTemperature, env, cache)
                /\ IF r.raised
                   THEN /\ pc' = "failed"
                        \* the graph library may annotate the exception with
                        \* the task it was running
                        /\ \E annotated \in BOOLEAN :
                             err' = [r.exc EXCEPT
                                       !.note = IF annotated THEN cur ELSE "none"]
                        /\ UNCHANGED <<state, cur>>
                   ELSE /\ state' = Merge(state, r.update)
                        /\ cur' = GraphOf(variant).edges[cur]
                        /\ UNCHANGED <<pc, err>>
                /\ UNCHANGED <<env, variant, form, llm, ui, vcall, pcall, aula, dcall, ocall>>

\* order of the tabs of the Streamlit pages and of the sections of run_cli
TabOrder == <<"plan", "hotels", "food", "leisure", "final">>
\* run_cli printing its sections in the order of the tabs
CliOrder_tabs == <<"plan", "hotels", "food", "leisure", "final">>
CliOrder == <<"plan", "hotels", "leisure", "food", "final">>

\* graph.invoke returned: the caller renders the result (run_tests asserts
\* that every output is filled)
Finish ==
    /\ pc = "running"
    /\ cur = END
    /\ IF variant = "v2test" /\ \E k \in OutputKeys : Get(state, k, "") = ""
       THEN /\ pc' = "failed"
            /\ err' = [type |-> "AssertionError", stage |-> "none", note |-> "none"]
            /\ UNCHANGED ui
       ELSE /\ pc' = "done"
            /\ ui' = [ui EXCEPT !.success = (variant # "v2cli"),
                                !.shown = IF variant = "v2cli" THEN CliOrder
                                          ELSE IF variant = "v2test" THEN <<>>
                                          ELSE TabOrder]
            /\ UNCHANGED err
    /\ UNCHANGED <<env, variant, form, state, cur, calls, trace, llm, used,
                   cache, vcall, pcall, aula, dcall, ocall>>

Next ==
    \/ SubmitCrew
    \/ SubmitV1
    \/ SubmitV2ui
    \/ SubmitV2cli
    \/ SubmitV2test
    \/ RunStage
    \/ Finish

Spec == Init /\ [][Next]_vars

(***************************************************************************)
(* validate_inputs called directly, as run_tests does                      *)
(***************************************************************************)
ValidateCall ==
    /\ \E d \in ValidateDestinos, di \in ValidateDates, df \in ValidateDates :
         vcall' = [done |-> TRUE, destino |-> d, data_inicio |-> di,
                   data_fim |-> df, result |-> validate_inputs(d, di, df)]
    /\ UNCHANGED <<env, variant, form, pc, state, cur, calls, trace, llm, used,
                   cache, err, ui, pcall, aula, dcall, ocall>>

SpecValidate == Init /\ [][ValidateCall]_vars

(***************************************************************************)
(* The prompt a node builds, on any state it can be handed                 *)
(***************************************************************************)
\* requests a state can carry
PromptRequests ==
    {test_inputs,
     [test_inputs EXCEPT !.orcamento = NaoInformado,
                         !.preferencias = NaoInformado]}
\* what a state can hold under an output key: nothing, an empty text, a text
ContextTexts(k) ==
    {None, Some(""),
     Some(CASE k = "plan" -> StubPlan
            [] k = "hotels" -> StubHotels
            [] k = "leisure" -> StubLeisure
            [] k = "food" -> StubFood
            [] k = "final" -> StubFinal)}
PromptKeys == OutputKeys \ {"final"}
\* the states built from a request and a choice of texts
StateOf(req, ctx) ==
    [k \in RequestKeys \cup {x \in DOMAIN ctx : ctx[x] # None} |->
        IF k \in RequestKeys THEN req[k] ELSE ctx[k][1]]

\* the first two statements of a node: system and human built from the state
PromptCall ==
    /\ ~pcall.done
    /\ \E stage \in StageSet, req \in PromptRequests,
          p \in ContextTexts("plan"), h \in ContextTexts("hotels"),
          l \in ContextTexts("leisure"), f \in ContextTexts("food") :
         LET ctx == [k \in PromptKeys |->
                       CASE k = "plan" -> p [] k = "hotels" -> h
                         [] k = "leisure" -> l [] k = "food" -> f]
             st == StateOf(req, ctx)
         IN  pcall' = [done |-> TRUE, stage |-> stage, st |-> st,
                       messages |-> Messages(stage, st)]
    /\ UNCHANGED <<env, variant, form, pc, state, cur, calls, trace, llm, used,
                   cache, err, ui, vcall, aula, dcall, ocall>>

SpecPrompt == Init /\ [][PromptCall]_vars

(***************************************************************************)
(* DummyLLM.invoke called directly                                         *)
(***************************************************************************)
\* the marker words, as invoke spells them and in two other spellings
Markers == <<"HOSPEDAGEM", "TABELA", "LAZER", "ALIMENTAÇÃO", "RELATÓRIO FINAL">>
MarkerSpellings ==
    {Markers,
     <<"hospedagem", "tabela", "lazer", "alimentação", "relatório final">>,
     <<"Hospedagem", "Tabelas", "Lazer", "Alimentação", "Relatório Final">>}
\* a text holding the words of sp whose index is in S, among other words
TextWith(sp, S) ==
    Join(" ", [i \in 1..Len(sp) |-> IF i \in S THEN sp[i] ELSE "roteiro"])
\* message lists holding exactly the markers of S: one message, a system
\* and a human message, the markers spread over two messages, no message
MessagesWith(sp, S) ==
    {<<TextWith(sp, S)>>,
     <<"Você escreve de forma clara.", TextWith(sp, S)>>,
     <<TextWith(sp, S \cap {1, 3, 5}), TextWith(sp, S \cap {2, 4})>>}
        \cup (IF S = {} THEN {<<>>, <<"LA", "ZER">>} ELSE {})

DummyCall ==
    /\ ~dcall.done
    /\ \E sp \in MarkerSpellings, S \in SUBSET (1..Len(Markers)) :
         \E messages \in MessagesWith(sp, S) :
            dcall' = [done |-> TRUE, markers |-> S, messages |-> messages,
                      answer |-> DummyLLM_invoke(messages)]
    /\ UNCHANGED <<env, variant, form, pc, state, cur, calls, trace, llm, used,
                   cache, err, ui, vcall, pcall, aula, ocall>>

SpecDummy == Init /\ [][DummyCall]_vars

(***************************************************************************)
(* The nodes run by a graph whose research nodes are wired in any order    *)
(***************************************************************************)
\* a deterministic capability whose answer shows all of its prompt
EchoLLM_invoke(messages) == Join("\n\n", messages)
Deterministic == {"DummyLLM", "EchoLLM"}
\* requests that differ from the one of run_tests in the free-text fields
OrderRequests ==
    PromptRequests \cup
    {[test_inputs EXCEPT !.preferencias = "Prefiro hospedagem central"],
     [test_inputs EXCEPT !.orcamento = "ver tabela de preços"],
     [test_inputs EXCEPT !.destino = "Lazer, Portugal"]}
\* the orders in which hotels, leisure and food can stand between planner
\* and writer
ResearchOrders ==
    {q \in [1..3 -> {"hotels", "leisure", "food"}] :
        \A i, j \in 1..3 : q[i] = q[j] => i = j}
\* graph.invoke on a chain of nodes: each node's update merged in turn
RECURSIVE RunOrder(_, _, _)
RunOrder(order, st, capk) ==
    IF order = <<>> THEN st
    ELSE LET messages == Messages(Head(order), st)
             text == IF capk = "EchoLLM" THEN EchoLLM_invoke(messages)
                     ELSE DummyLLM_invoke(messages)
         IN  RunOrder(Tail(order),
                      Merge(st, [k \in {KeyOf(Head(order))} |-> text]), capk)

OrderCall ==
    /\ ~ocall.done
    /\ \E order \in ResearchOrders, req \in OrderRequests,
          capk \in Deterministic :
         ocall' = [done |-> TRUE, order |-> order, req |-> req, cap |-> capk,
                   context |-> RunOrder(<<"planner">> \o order \o <<"writer">>,
                                        req, capk)]
    /\ UNCHANGED <<env, variant, form, pc, state, cur, calls, trace, llm, used,
                   cache, err, ui, vcall, pcall, aula, dcall>>

SpecOrder == Init /\ [][OrderCall]_vars

(***************************************************************************)
(* aula_agentes: the study-material page                                   *)
(***************************************************************************)
\* what the script does on a click of "Gerar material"
AulaSubmit ==
    /\ aula.pc = "idle"
    /\ env.streamlit
    /\ \E tema \in Temas, op \in AulaOpcionais, mostrar_gabarito \in BOOLEAN :
         IF ~Truthy(Some(AulaApiKey)) \/ ~Truthy(tema)
         THEN aula' = [aula EXCEPT !.pc = "rejected", !.tema = tema,
                                   !.mostrar_gabarito = mostrar_gabarito,
                                   !.error = Some(MsgAula)]
         ELSE aula' = [aula EXCEPT
                         !.pc = "running",
                         !.tema = tema,
                         !.mostrar_gabarito = mostrar_gabarito,
                         !.agents = aula_agents(mostrar_gabarito),
                         !.tasks = aula_tasks(mostrar_gabarito),
                         !.context = aula_context(mostrar_gabarito),
                         !.inputs = aula_inputs(tema, op[1], op[2])]
    /\ UNCHANGED <<env, variant, form, pc, state, cur, calls, trace, llm, used,
                   cache, err, ui, vcall, pcall, dcall, ocall>>

\* crew.kickoff, one task of the sequential process: its output is set, or
\* the exception of the capability leaves kickoff
AulaRunTask ==
    /\ aula.pc = "running"
    /\ Len(aula.started) < Len(aula.tasks)
    /\ \E oracle \in RealOutcomes :
         LET t == aula.tasks[Len(aula.started) + 1]
         IN  aula' = [aula EXCEPT
                        !.started = Append(@, t),
                        !.pc = IF oracle.kind = "raise" THEN "failed" ELSE @,
                        !.outputs = IF oracle.kind = "raise" THEN @
                                    ELSE Merge(@, [k \in {t} |-> oracle.text])]
    /\ UNCHANGED <<env, variant, form, pc, state, cur, calls, trace, llm, used,
                   cache, err, ui, vcall, pcall, dcall, ocall>>

\* the code after crew.kickoff: the outputs are read and the tabs rendered
AulaRender ==
    /\ aula.pc = "running"
    /\ Len(aula.started) = Len(aula.tasks)
    /\ aula' = [aula EXCEPT !.pc = "done",
                            !.read = aula_read(aula.mostrar_gabarito),
                            !.tabs = aula_tabs(aula.mostrar_gabarito)]
    /\ UNCHANGED <<env, variant, form, pc, state, cur, calls, trace, llm, used,
                   cache, err, ui, vcall, pcall, dcall, ocall>>

AulaNext ==
    \/ AulaSubmit
    \/ AulaRunTask
    \/ AulaRender

SpecAula == Init /\ [][AulaNext]_vars

(***************************************************************************)
(* Properties                                                              *)
(***************************************************************************)
V2 == {"v2ui", "v2cli", "v2test"}
LangGraph == {"v1"} \cup V2
Has(k) == k \in DOMAIN state
Filled(k) == Has(k) /\ state[k] # ""
\* index of the stage whose call on the capability raised, 0 if none did
RaisedAt ==
    IF \E i \in 1..Len(used) : used[i].resp.kind = "raise"
    THEN CHOOSE i \in 1..Len(used) : used[i].resp.kind = "raise"
    ELSE 0
AllSpaces(s) == \A i \in 1..Len(s) : IsSpace(Char(s, i))
Blank(d) == d = None \/ AllSpaces(d[1])
DateNum(d) == d.y * 10000 + d.m * 100 + d.d
Parses(d) == _parse_date(d) # ParseError
EndBeforeStart(di, df) ==
    Parses(di) /\ Parses(df) /\ DateNum(_parse_date(df)) < DateNum(_parse_date(di))

\* C1: a run of the langgraph_v2 graph built with the fallback DummyLLM ends
\* with plan, hotels, leisure, food and final all present and non-empty.
C1_DummyRunFillsAllKeys ==
    (variant \in V2 /\ llm.kind = "DummyLLM" /\ pc \in {"done", "failed"})
        => (pc = "done" /\ \A k \in OutputKeys : Filled(k))

\* C2: validate_inputs returns (True, None) when the destination is not
\* blank and the end date is on or after the start date, (False, destination
\* message) when the destination is empty or blank, and (False, end-date
\* message) when the destination is given and the end date is before the
\* start date.
C2_ValidateContract ==
    vcall.done =>
        /\ (~Blank(vcall.destino) /\ Parses(vcall.data_inicio)
              /\ Parses(vcall.data_fim)
              /\ ~EndBeforeStart(vcall.data_inicio, vcall.data_fim))
             => vcall.result = <<TRUE, None>>
        /\ Blank(vcall.destino) => vcall.result = <<FALSE, Some(MsgDestino)>>
        /\ (~Blank(vcall.destino)
              /\ EndBeforeStart(vcall.data_inicio, vcall.data_fim))
             => vcall.result = <<FALSE, Some(MsgTermino)>>
        /\ ~vcall.result[1] => (vcall.result[2] # None /\ vcall.result[2][1] # "")

C2_Witness ==
    /\ vcall.done
    /\ ~Blank(vcall.destino)
    /\ vcall.data_inicio = Str("2025-01-05")
    /\ vcall.data_fim = DateTime(2025, 1, 5, 18)
    /\ vcall.result = <<TRUE, None>>

\* C3: in every variant a submission with an empty destination or an end
\* date before the start date is rejected with no capability constructed, no
\* stage started and no call made on a capability.
C3_RejectedBeforeAnyCall ==
    (variant # "none"
       /\ (~Truthy(form.destino) \/ EndBeforeStart(form.data_inicio, form.data_fim)))
        => /\ pc = "rejected"
           /\ llm = NoLLM
           /\ cache = {}
           /\ trace = <<>>
           /\ calls = 0
           /\ ui.error # None

C3_Witness ==
    /\ variant = "v1"
    /\ Truthy(form.destino)
    /\ EndBeforeStart(form.data_inicio, form.data_fim)
    /\ pc = "rejected"
    /\ calls = 0

\* C4: with the fallback generator answering the planner, the request
\* Lisboa, Portugal / 2025-01-01 / 2025-01-05 gets a plan that contains the
\* labels HOSPEDAGEM, LAZER and ALIMENTAÇÃO.
C4_PlanHasThreeLabels ==
    (variant \in V2 /\ Has("plan") /\ used[1].llm.kind = "DummyLLM"
       /\ state["destino"] = "Lisboa, Portugal"
       /\ state["data_inicio"] = "2025-01-01"
       /\ state["data_fim"] = "2025-01-05")
        => /\ Contains(state["plan"], "HOSPEDAGEM")
           /\ Contains(state["plan"], "LAZER")
           /\ Contains(state["plan"], "ALIMENTAÇÃO")

\* the stub DummyLLM holds for each stage
StubOf(stage) ==
    CASE stage = "planner" -> StubPlan
      [] stage = "hotels" -> StubHotels
      [] stage = "leisure" -> StubLeisure
      [] stage = "food" -> StubFood
      [] stage = "writer" -> StubFinal

\* C5: the fallback generator answers the prompt of every stage with the
\* stub of that stage; in particular the writer's prompt gets the RELATÓRIO
\* FINAL report.
C5_EachStageOwnStub ==
    \A i \in 1..Len(used) :
        (variant \in V2 /\ used[i].llm.kind = "DummyLLM")
            => used[i].resp.text = StubOf(trace[i])

\* C6: once the call of stage i raised, no later stage is started, the
\* context holds exactly the keys of the stages before i, the run has failed
\* and the caller has shown neither the success banner nor any result.
C6_FailFast ==
    RaisedAt # 0 =>
        /\ Len(trace) = RaisedAt
        /\ pc = "failed"
        /\ DOMAIN state \cap OutputKeys = {KeyOf(trace[j]) : j \in 1..(RaisedAt - 1)}
        /\ ~ui.success
        /\ ui.shown = <<>>

C6_Witness ==
    /\ RaisedAt = 2
    /\ trace = <<"planner", "hotels">>
    /\ Has("plan")
    /\ ~Has("final")
    /\ pc = "failed"

C8_EmptyPayloadFails ==
    \A i \in 1..Len(used) :
        (variant \in LangGraph /\ used[i].resp.kind = "content"
           /\ used[i].resp.text = "")
            => /\ ~Has(KeyOf(trace[i]))
               /\ Len(trace) = i
               /\ pc = "failed"

\* C9: stages start in the order planner, hotels, leisure, food, writer,
\* each only when the keys of all stages before it are in the context, and a
\* run that completes has run all five, once each.
C9_StartsInOrder ==
    trace' # trace =>
        /\ Len(trace) < Len(Stages)
        /\ trace' = Append(trace, Stages[Len(trace) + 1])
        /\ \A j \in 1..Len(trace) : Has(KeyOf(Stages[j]))
C9_FixedOrder ==
    /\ [][C9_StartsInOrder]_vars
    /\ [](pc = "done" => trace = Stages)

C9_Witness ==
    /\ variant = "crew"
    /\ pc = "done"
    /\ trace = Stages
    /\ \A k \in OutputKeys : Has(k)

\* C10: in the LangGraph variants every stage execution makes exactly one
\* call on the capability: a completed run has made five calls and a run
\* whose stage i raised has made i.
C10_OneCallPerStage ==
    variant \in LangGraph =>
        /\ calls = Len(trace)
        /\ Len(used) = Len(trace)
        /\ pc = "done" => calls = 5
        /\ RaisedAt # 0 => calls = StageIndex(trace[RaisedAt])

C10_Witness ==
    /\ variant = "v1"
    /\ pc = "failed"
    /\ RaisedAt = 3
    /\ calls = 3

\* C11: while a pipeline runs the context only grows and is write-once: a
\* step of a stage adds at most the key of that stage (and exactly that key
\* when the stage completes), every key already present keeps its value, and
\* the five request fields stay what the caller handed in; the value under
\* the key of each completed stage is the text that stage received.
C11_StageStep ==
    pc = "running" =>
        /\ \A k \in DOMAIN state : k \in DOMAIN state' /\ state'[k] = state[k]
        /\ DOMAIN state' \ DOMAIN state \subseteq
             (IF trace' # trace THEN {KeyOf(cur)} ELSE {})
        /\ (trace' # trace /\ pc' = "running") =>
             (KeyOf(cur) \in DOMAIN state' /\ KeyOf(cur) \notin DOMAIN state)
C11_WriteOnce ==
    /\ [][C11_StageStep]_vars
    /\ [](pc \in {"running", "done", "failed"} =>
            /\ RequestKeys \subseteq DOMAIN state
            /\ DOMAIN state \subseteq RequestKeys \cup OutputKeys
            /\ \A i \in 1..Len(trace) :
                 used[i].resp.kind = "content" =>
                    (Has(KeyOf(trace[i]))
                       /\ state[KeyOf(trace[i])] = used[i].resp.text))

C11_Witness ==
    /\ pc = "done"
    /\ variant = "v2ui"
    /\ Len(trace) = 5
    /\ state["plan"] = used[1].resp.text
    /\ state["plan"] # state["final"]
    /\ state["destino"] = form.destino[1]

\* C12: the prompt the writer builds holds, as written, the text the state
\* has under plan, hotels, leisure and food, each in its own section and in
\* that order, whatever the four texts are.
C12_WriterPromptVerbatim ==
    (pcall.done /\ pcall.stage = "writer") =>
        /\ \A k \in PromptKeys :
             Contains(pcall.messages[2], Get(pcall.st, k, ""))
        /\ Contains(pcall.messages[2],
                    "=== PLANEJAMENTO ===\n\n" \o Get(pcall.st, "plan", "")
                    \o "\n\n\n\n=== HOSPEDAGEM ===\n\n"
                    \o Get(pcall.st, "hotels", "")
                    \o "\n\n\n\n=== LAZER ===\n\n"
                    \o Get(pcall.st, "leisure", "")
                    \o "\n\n\n\n=== ALIMENTAÇÃO ===\n\n"
                    \o Get(pcall.st, "food", "") \o "\n")

C12_Witness ==
    /\ pcall.done
    /\ pcall.stage = "writer"
    /\ PromptKeys \subseteq DOMAIN pcall.st
    /\ pcall.st["plan"] = StubPlan
    /\ pcall.st["hotels"] = StubHotels
    /\ pcall.st["leisure"] = StubLeisure
    /\ pcall.st["food"] = StubFood

\* C13: on every entry path, a budget or preferences field that is absent
\* or empty reaches the pipeline as the placeholder "não informado", and
\* neither field is ever an empty text in the state the prompts are built
\* from.
C13_PlaceholderForMissing ==
    (pc \in {"running", "done", "failed"} /\ variant # "v2test") =>
        /\ ~Truthy(form.orcamento) => state["orcamento"] = NaoInformado
        /\ ~Truthy(form.preferencias) => state["preferencias"] = NaoInformado
        /\ state["orcamento"] # ""
        /\ state["preferencias"] # ""

\* C14: the capability every stage of a langgraph_v1 or langgraph_v2 run
\* invokes is the one the caller resolved: built from the explicit API key
\* when one was supplied, from GROQ_API_KEY only when none was, and with the
\* temperature the caller chose.
C14_StagesUseResolvedCapability ==
    \A i \in 1..Len(used) :
        variant \in {"v1", "v2ui", "v2cli"} =>
            /\ used[i].llm = llm
            /\ used[i].llm.temperature = form.temperatura
            /\ used[i].llm.kind = "ChatGroq" =>
                 used[i].llm.api_key = IF Truthy(form.api_key) THEN form.api_key
                                       ELSE env.GROQ_API_KEY
            /\ (Truthy(form.api_key) /\ env.ChatGroq) =>
                 used[i].llm.kind = "ChatGroq"

\* C15: every call made while a graph of build_graph(llm) runs is made on
\* that llm; the run of the embedded test, built with DummyLLM(), calls only
\* the DummyLLM whatever GROQ_API_KEY holds and whether or not ChatGroq can
\* be imported.
C15_NodesCallGivenLLM ==
    variant \in V2 =>
        \A i \in 1..Len(used) :
            /\ used[i].llm = llm
            /\ variant = "v2test" => used[i].llm.kind = "DummyLLM"

\* C16: get_llm of langgraph_v2 always returns a capability; when neither an
\* explicit key nor GROQ_API_KEY is there, or ChatGroq could not be
\* imported, it returns the DummyLLM, whose invoke answers every stage with
\* a text: no stage fails, every stage that ran has filled its key, and a
\* run that has gone through the five stages ends with the five keys filled.
NoCredential == ~Truthy(form.api_key) /\ ~Truthy(env.GROQ_API_KEY)
Unavailable == NoCredential \/ ~env.ChatGroq
C16_AlwaysACapability ==
    (variant \in V2 /\ pc \in {"running", "done", "failed"}) =>
        /\ llm.kind \in {"ChatGroq", "DummyLLM"}
        /\ (variant # "v2test" /\ Unavailable) => llm = DummyLLM(form.temperatura)
        /\ Unavailable =>
             /\ pc # "failed"
             /\ \A i \in 1..Len(used) :
                  /\ used[i].llm.kind = "DummyLLM"
                  /\ used[i].resp.kind = "content"
                  /\ used[i].resp.text # ""
                  /\ Filled(KeyOf(trace[i]))
             /\ cur = END => (Len(trace) = 5 /\ \A k \in OutputKeys : Filled(k))

C16_Witness ==
    /\ variant = "v2cli"
    /\ NoCredential
    /\ env.ChatGroq
    /\ llm.kind = "DummyLLM"
    /\ pc = "done"
    /\ \A k \in OutputKeys : Filled(k)

\* C17: a langgraph_v1 submission with no API key in the form and none in
\* GROQ_API_KEY is stopped with an error shown before the graph is built: no
\* capability, no initial state, no stage started, no call, no output key,
\* no success banner.
C17_NoKeyAbortsBeforeFirstStage ==
    (variant = "v1" /\ ~Truthy(form.api_key) /\ ~Truthy(env.GROQ_API_KEY)) =>
        /\ pc \in {"rejected", "config_error"}
        /\ v1_validate(form.destino, form.data_inicio, form.data_fim)[1]
             => pc = "config_error"
        /\ ui.error # None
        /\ ~ui.success
        /\ ui.shown = <<>>
        /\ llm = NoLLM
        /\ cache = {}
        /\ DOMAIN state = {}
        /\ cur = END
        /\ trace = <<>>
        /\ calls = 0

C17_Witness ==
    /\ variant = "v1"
    /\ ~Truthy(form.api_key)
    /\ ~Truthy(env.GROQ_API_KEY)
    /\ form.destino = Some("Lisboa, Portugal")
    /\ pc = "config_error"
    /\ ui.error = Some("Erro ao inicializar o LLM")
    /\ trace = <<>>

\* C18: run_cli ends with exit status 2 whenever validate_inputs rejects the
\* request, having printed the error and no section; a valid request is not
\* rejected, its run prints the sections PLANEJAMENTO, HOSPEDAGEM, LAZER,
\* ALIMENTAÇÃO, RELATÓRIO FINAL in that order, and nothing but an exception
\* of a stage call keeps a valid run from printing them.
CliValid == validate_inputs(form.destino, form.data_inicio, form.data_fim)
C18_CliExitAndSections ==
    variant = "v2cli" =>
        /\ ~CliValid[1] =>
             /\ pc = "rejected"
             /\ ui.exit = 2
             /\ ui.error = CliValid[2]
             /\ ui.error # None
             /\ ui.shown = <<>>
             /\ trace = <<>>
        /\ CliValid[1] =>
             /\ pc \in {"running", "done", "failed"}
             /\ ui.exit # 2
             /\ ui.error = None
             /\ pc = "failed" => RaisedAt # 0
             /\ cur = END => Len(trace) = 5
        /\ pc = "done" =>
             /\ ui.shown = <<"plan", "hotels", "leisure", "food", "final">>
             /\ \A k \in OutputKeys : Has(k)
        /\ ui.shown # <<>> => pc = "done"

C18_Witness ==
    /\ variant = "v2cli"
    /\ pc = "rejected"
    /\ form.destino = Some("Porto")
    /\ ui.exit = 2
    /\ ui.error = Some(MsgTermino)
    /\ ui.shown = <<>>

\* keys written by the stages that run before a stage
PriorKeys(stage) == {KeyOf(Stages[j]) : j \in 1..(StageIndex(stage) - 1)}
\* a state cut down to the request and the plan
RequestAndPlan(st) ==
    [k \in DOMAIN st \cap (RequestKeys \cup {"plan"}) |-> st[k]]

RECURSIVE FallbackRun(_, _)
FallbackRun(st, i) ==
    IF i > Len(Stages) THEN st
    ELSE FallbackRun(
            Merge(st, [k \in {KeyOf(Stages[i])} |->
                         DummyLLM_invoke(Messages(Stages[i], st))]),
            i + 1)
AllFallback == \A i \in 1..Len(used) : used[i].llm.kind = "DummyLLM"

Range(q) == {q[i] : i \in 1..Len(q)}

\* C21: in aula_agentes the answer-key stage is in the pipeline exactly when
\* the toggle is on: with it on the tasks are resumo, exemplos, exercicios,
\* gabarito, the gabarito task has the exercicios task as its context and
\* four tabs are rendered; with it off the tasks are resumo, exemplos,
\* exercicios, no gabarito agent or task exists, runs or is read, and three
\* tabs are rendered.
C21_GabaritoFollowsToggle ==
    aula.pc \in {"running", "done", "failed"} =>
        /\ aula.mostrar_gabarito =>
             /\ aula.tasks = <<"t_resumo", "t_exemplos", "t_exercicios",
                               "t_gabarito">>
             /\ aula.agents[4] = "agente_gabarito"
             /\ aula.context["t_gabarito"] = Some(<<"t_exercicios">>)
             /\ aula.pc = "done" =>
                  /\ aula.tabs = <<"Resumo", "Exemplos", "Exercícios", "Gabarito">>
                  /\ aula.started = aula.tasks
                  /\ "t_gabarito" \in DOMAIN aula.outputs
        /\ ~aula.mostrar_gabarito =>
             /\ aula.tasks = <<"t_resumo", "t_exemplos", "t_exercicios">>
             /\ "agente_gabarito" \notin Range(aula.agents)
             /\ "t_gabarito" \notin DOMAIN aula.context
             /\ "t_gabarito" \notin Range(aula.started)
             /\ "t_gabarito" \notin DOMAIN aula.outputs
             /\ "t_gabarito" \notin Range(aula.read)
             /\ aula.pc = "done" =>
                  aula.tabs = <<"Resumo", "Exemplos", "Exercícios">>
        /\ Len(aula.started) <= Len(aula.tasks)
        /\ aula.started = SubSeq(aula.tasks, 1, Len(aula.started))

C21_Witness ==
    /\ aula.pc = "done"
    /\ ~aula.mostrar_gabarito
    /\ Len(aula.started) = 3
    /\ Len(aula.tabs) = 3
    /\ aula.read = <<"t_resumo", "t_exemplos", "t_exercicios">>

\* C22: DummyLLM.invoke answers by the first match, in any letter case and
\* wherever in the messages the words stand: HOSPEDAGEM and TABELA both there
\* -> hotel table; else LAZER -> leisure list; else ALIMENTAÇÃO -> food
\* table; else RELATÓRIO FINAL -> final report; and the planning stub exactly
\* when none of the four tests matches.
C22_FirstMatchPriority ==
    dcall.done =>
        /\ dcall.answer =
             (IF {1, 2} \subseteq dcall.markers THEN StubHotels
              ELSE IF 3 \in dcall.markers THEN StubLeisure
              ELSE IF 4 \in dcall.markers THEN StubFood
              ELSE IF 5 \in dcall.markers THEN StubFinal
              ELSE StubPlan)
        /\ dcall.answer = StubPlan <=>
             (~({1, 2} \subseteq dcall.markers) /\ dcall.markers \cap {3, 4, 5} = {})

C22_Witness ==
    /\ dcall.done
    /\ dcall.markers = {1, 2, 3, 4, 5}
    /\ Len(dcall.messages) = 2
    /\ Contains(dcall.messages[2], "Tabelas")
    /\ dcall.answer = StubHotels

\* date arguments that are no date: a day that does not exist, a word
BadDates == {Str("2025-02-30"), Str("amanhã")}

\* C23: validate_inputs returns a (bool, message) pair for every destination
\* and every date argument (date, datetime, ISO text, text that is no date)
\* and lets no exception out; a date that cannot be parsed gives (False,
\* invalid-dates message) when the destination is given; the destination is
\* looked at first, so a blank destination with bad or inverted dates gives
\* the destination message.
C23_TotalAndDestinationFirst ==
    vcall.done =>
        /\ vcall.result \in
             {<<TRUE, None>>} \cup
             {<<FALSE, Some(m)>> : m \in {MsgDestino, MsgDatas, MsgTermino}}
        /\ (~Blank(vcall.destino)
              /\ (vcall.data_inicio \in BadDates \/ vcall.data_fim \in BadDates))
             => vcall.result = <<FALSE, Some(MsgDatas)>>
        /\ (Blank(vcall.destino)
              /\ (vcall.data_inicio \in BadDates \/ vcall.data_fim \in BadDates
                    \/ EndBeforeStart(vcall.data_inicio, vcall.data_fim)))
             => vcall.result = <<FALSE, Some(MsgDestino)>>
        /\ vcall.result[2] = Some(MsgDatas) =>
             (vcall.data_inicio \in BadDates \/ vcall.data_fim \in BadDates)

C23_Witness ==
    /\ vcall.done
    /\ vcall.destino = Some("  ")
    /\ vcall.data_inicio = Str("amanhã")
    /\ vcall.data_fim = DateTime(2025, 1, 1, 9)
    /\ vcall.result = <<FALSE, Some(MsgDestino)>>

\* C24: hotels, leisure and food build their prompt from the request and the
\* plan alone, so with a deterministic capability the context after planner,
\* the three stages in any of their six orders, and writer is the context of
\* the order hotels, leisure, food.
C24_ResearchOrderIndependent ==
    ocall.done =>
        /\ ocall.context =
             RunOrder(<<"planner", "hotels", "leisure", "food", "writer">>,
                      ocall.req, ocall.cap)
        /\ \A s \in {"hotels", "leisure", "food"} :
             Messages(s, ocall.context) = Messages(s, RequestAndPlan(ocall.context))
        /\ DOMAIN ocall.context = RequestKeys \cup OutputKeys

C24_Witness ==
    /\ ocall.done
    /\ ocall.order = <<"food", "leisure", "hotels">>
    /\ ocall.cap = "EchoLLM"
    /\ ocall.req = test_inputs
    /\ Contains(ocall.context["food"], ocall.context["plan"])
    /\ Contains(ocall.context["final"], ocall.context["hotels"])

\* C25: with the fallback answering, the stub each stage receives is the
\* same for every request that differs from another only in destination,
\* budget or preferences, words such as tabela, lazer or hospedagem in those
\* fields included: every key holds what it holds for the request of the
\* embedded test.
C25_StubsIndependentOfFreeText ==
    (ocall.done /\ ocall.cap = "DummyLLM"
       /\ ocall.order = <<"hotels", "leisure", "food">>) =>
        \A k \in OutputKeys :
            ocall.context[k] = FallbackRun(test_inputs, 1)[k]

====
